---- MODULE Spec2Model ----
(***************************************************************************)
(* A model of goxkit/metrics: the HTTP metrics middleware                  *)
(* (custom/http/http.go), the provider selection (metrics.go,              *)
(* noop.Install, otlp/otlp.go) and the runtime gauge collectors            *)
(* (custom/system).                                                        *)
(***************************************************************************)
EXTENDS Integers, Sequences, FiniteSets, TLC

(* ------------------------------ bounds -------------------------------- *)

\* number of requests served through one middleware instance
NumRequests == 2

\* how many times one inner handler may call WriteHeader
MaxWrites == 2

\* how many times Install is called
MaxInstalls == 3

\* how many measurements the consumers record
MaxMeasurements == 2

\* how far the clock runs
MaxTime == 3

\* how many collectors are constructed
MaxCollectors == 3

\* how many callbacks are registered with the meter
MaxCallbacks == 3

\* how many times the runtime's counters change
MaxRuntimeChanges == 2

\* how many collection cycles the reader runs
MaxTicks == 2

(* ------------------------- program constants -------------------------- *)

\* http.StatusOK, the status the decorator starts with
StatusOK == 200

\* inputs of a request: r.Method and r.RequestURI
RequestInputs ==
    {[Method |-> "GET", RequestURI |-> "/a"],
     [Method |-> "POST", RequestURI |-> "/b?x=1"]}

\* the codes an inner handler passes to WriteHeader
Codes == {404, 500}

Requests == 1..NumRequests

\* the request whose timing is followed against the clock
TimedRequests == {1}

VARIABLES
    pc,               \* per request: where its goroutine is inside fn
    request,          \* per request: r.Method and r.RequestURI
    rw,               \* per request: the responseWriter decorator of that call
    start,            \* per request: the local start := time.Now()
    handlerCalls,     \* per request: the codes the inner handler passed to WriteHeader
    underlying,       \* per request: the WriteHeader calls the wrapped writer received
    now,              \* the monotonic clock
    invokedAt,        \* per request: the clock when next.ServeHTTP was called
    returnedAt,       \* per request: the clock when next.ServeHTTP returned
    requestDuration,  \* per request: the Record calls the histogram received from it
    requestCounter    \* per request: the Add calls the counter received from it

httpVars == <<pc, request, rw, start, handlerCalls, underlying, now,
              invokedAt, returnedAt, requestDuration, requestCounter>>

VARIABLES
    cfgs,             \* the *configs.Configs every Install call is given
    globalProvider,   \* what otel.SetMeterProvider last stored
    created,          \* the MeterProviders sdkmetric.NewMeterProvider has built
    factoryCalls,     \* calls of otlpgrpc.NewExporterGRPCClient
    dialed,           \* connections NewExporterGRPCClient has returned
    exporters,        \* exporters otlpmetricgrpc.New has returned
    installs,         \* calls of Install
    lastCall,         \* the inputs of the last Install call
    ret,              \* what the last Install call returned
    meter,            \* the provider the consumers' otel.Meter(...) is bound to
    recorded          \* the provider of each measurement the consumers recorded

installVars == <<cfgs, globalProvider, created, factoryCalls, dialed, exporters,
                 installs, lastCall, ret, meter, recorded>>

VARIABLES
    registry,         \* the instrument names the meter holds
    collectors,       \* the collectors the constructors have returned
    callbacks,        \* the callbacks meter.RegisterCallback has been given
    lastCtor,         \* what the last constructor or BasicMetricsCollector call did
    runtime,          \* the Go runtime's counters, as the number of changes so far
    ticks,            \* collection cycles the provider's reader has started
    cycle,            \* the callback the reader is running and the statements it has run
    stats,            \* the local var stats runtime.MemStats of the running callback
    obs,              \* the ObserveInt64 calls of the running callback
    seen,             \* the runtime states that existed while the running callback ran
    reads             \* the runtime states the running callback read with ReadMemStats

collectVars == <<registry, collectors, callbacks, lastCtor, runtime, ticks, cycle,
                 stats, obs, seen, reads>>

vars == <<httpVars, installVars, collectVars>>

(* ----------------------- custom/http/http.go -------------------------- *)

NoRequest == [Method |-> "", RequestURI |-> ""]

\* faulty variant: the decorator built without its status, &responseWriter{ResponseWriter: w}
newResponseWriter_ZeroStatus == [statusCode |-> 0]

\* rw := &responseWriter{w, http.StatusOK}
newResponseWriter == [statusCode |-> StatusOK]

\* func (lrw *responseWriter) WriteHeader(code int): the decorator after the call
WriteHeader(lrw, code) == [lrw EXCEPT !.statusCode = code]

\* metric.WithAttributes(...) of the requestDuration.Record call
DurationAttributes(r) ==
    [method     |-> request[r].Method,
     uri        |-> request[r].RequestURI,
     statusCode |-> rw[r].statusCode]

\* faulty variant: the counter's attributes built with the default status, not the captured one
CounterAttributes_DefaultStatus(r) ==
    [method     |-> request[r].Method,
     uri        |-> request[r].RequestURI,
     statusCode |-> StatusOK]

\* faulty variant: one decorator shared by all requests, so that a request reads the
\* status another request wrote
CounterAttributes_SharedWriter(r) ==
    [method     |-> request[r].Method,
     uri        |-> request[r].RequestURI,
     statusCode |-> rw[CHOOSE q \in Requests : q # r].statusCode]

\* metric.WithAttributes(...) of the requestCounter.Add call
CounterAttributes(r) ==
    [method     |-> request[r].Method,
     uri        |-> request[r].RequestURI,
     statusCode |-> rw[r].statusCode]

\* faulty variant: no time is measured
Since_Unmeasured(t) == 0

\* time.Since(start).Nanoseconds()
Since(t) == now - t

\* faulty variant: the decorator records the code and does not pass it on
Forward_Dropped(w, code) == w

\* lrw.ResponseWriter.WriteHeader(code): the calls the wrapped writer has received
Forward(w, code) == Append(w, code)

\* the clock advances
Tick ==
    /\ UNCHANGED <<installVars, collectVars>>
    /\ now < MaxTime
    /\ now' = now + 1
    /\ UNCHANGED <<pc, request, rw, start, handlerCalls, underlying, invokedAt,
                   returnedAt, requestDuration, requestCounter>>

\* fn is entered for request r: ctx, rw and start := time.Now() are set
ServeHTTP(r, req) ==
    /\ UNCHANGED <<installVars, collectVars>>
    /\ pc[r] = "idle"
    /\ pc' = [pc EXCEPT ![r] = "started"]
    /\ request' = [request EXCEPT ![r] = req]
    /\ rw' = [rw EXCEPT ![r] = newResponseWriter]
    /\ start' = [start EXCEPT ![r] = now]
    /\ UNCHANGED <<handlerCalls, underlying, now, invokedAt, returnedAt,
                   requestDuration, requestCounter>>

\* fn calls next.ServeHTTP(rw, r.WithContext(ctx)): the inner handler begins
InvokeHandler(r) ==
    /\ UNCHANGED <<installVars, collectVars>>
    /\ pc[r] = "started"
    /\ pc' = [pc EXCEPT ![r] = "serving"]
    /\ invokedAt' = [invokedAt EXCEPT ![r] = now]
    /\ UNCHANGED <<request, rw, start, handlerCalls, underlying, now, returnedAt,
                   requestDuration, requestCounter>>

\* the inner handler calls rw.WriteHeader(code)
HandlerWriteHeader(r, code) ==
    /\ UNCHANGED <<installVars, collectVars>>
    /\ pc[r] = "serving"
    /\ Len(handlerCalls[r]) < MaxWrites
    /\ handlerCalls' = [handlerCalls EXCEPT ![r] = Append(@, code)]
    /\ rw' = [rw EXCEPT ![r] = WriteHeader(@, code)]
    /\ underlying' = [underlying EXCEPT ![r] = Forward(@, code)]
    /\ UNCHANGED <<pc, request, start, now, invokedAt, returnedAt,
                   requestDuration, requestCounter>>

\* next.ServeHTTP returns normally
HandlerReturn(r) ==
    /\ UNCHANGED <<installVars, collectVars>>
    /\ pc[r] = "serving"
    /\ pc' = [pc EXCEPT ![r] = "returned"]
    /\ returnedAt' = [returnedAt EXCEPT ![r] = now]
    /\ UNCHANGED <<request, rw, start, handlerCalls, underlying, now, invokedAt,
                   requestDuration, requestCounter>>

\* next.ServeHTTP panics: fn has no defer and no recover, the panic unwinds
\* through it and the statements after the call are never run
HandlerPanic(r) ==
    /\ UNCHANGED <<installVars, collectVars>>
    /\ pc[r] = "serving"
    /\ pc' = [pc EXCEPT ![r] = "panicked"]
    /\ UNCHANGED <<request, rw, start, handlerCalls, underlying, now, invokedAt,
                   returnedAt, requestDuration, requestCounter>>

\* m.requestDuration.Record(ctx, float64(time.Since(start).Nanoseconds()), attrs)
RecordDuration(r) ==
    /\ UNCHANGED <<installVars, collectVars>>
    /\ pc[r] = "returned"
    /\ requestDuration' = [requestDuration EXCEPT ![r] =
           Append(@, [value |-> Since(start[r]), attrs |-> DurationAttributes(r)])]
    /\ pc' = [pc EXCEPT ![r] = "recorded"]
    /\ UNCHANGED <<request, rw, start, handlerCalls, underlying, now, invokedAt,
                   returnedAt, requestCounter>>

\* m.requestCounter.Add(ctx, 1, attrs), then fn returns
AddCounter(r) ==
    /\ UNCHANGED <<installVars, collectVars>>
    /\ pc[r] = "recorded"
    /\ requestCounter' = [requestCounter EXCEPT ![r] =
           Append(@, [value |-> 1, attrs |-> CounterAttributes(r)])]
    /\ pc' = [pc EXCEPT ![r] = "done"]
    /\ UNCHANGED <<request, rw, start, handlerCalls, underlying, now, invokedAt,
                   returnedAt, requestDuration>>

(* ------------- metrics.go, noop.Install, otlp/otlp.go ----------------- *)

\* a nil *sdkmetric.MeterProvider
NilProvider == [kind |-> "nil", id |-> 0]

\* the provider otel.GetMeterProvider answers before any SetMeterProvider
DefaultProvider == [kind |-> "default", id |-> 0]

\* cfgs.OTLPExporterConn == nil
NoConn == [kind |-> "nil", id |-> 0]

\* a connection the caller stored in cfgs before the first Install
InjectedConn == [kind |-> "injected", id |-> 0]

\* a nil error
NoError == "nil"

\* the provider sdkmetric.NewMeterProvider returns next
NewMeterProvider(kind) == [kind |-> kind, id |-> Len(created) + 1]

\* the connection otlpgrpc.NewExporterGRPCClient returns next
NewExporterGRPCClient == [kind |-> "dialed", id |-> dialed + 1]

\* faulty variant: the no-op path dials the collector as the exporting path does
noopInstall_Dials ==
    /\ created' = Append(created, "noop")
    /\ cfgs' = [cfgs EXCEPT !.MetricsProvider = NewMeterProvider("noop")]
    /\ ret' = [provider |-> NewMeterProvider("noop"), err |-> NoError]
    /\ factoryCalls' = factoryCalls + 1
    /\ UNCHANGED <<globalProvider, dialed, exporters>>

\* faulty variant: the no-op path hands out the provider already stored in cfgs
noopInstall_KeepsFirst ==
    IF cfgs.MetricsProvider # NilProvider
    THEN /\ ret' = [provider |-> cfgs.MetricsProvider, err |-> NoError]
         /\ UNCHANGED <<cfgs, created, globalProvider, factoryCalls, dialed, exporters>>
    ELSE /\ created' = Append(created, "noop")
         /\ cfgs' = [cfgs EXCEPT !.MetricsProvider = NewMeterProvider("noop")]
         /\ ret' = [provider |-> NewMeterProvider("noop"), err |-> NoError]
         /\ UNCHANGED <<globalProvider, factoryCalls, dialed, exporters>>

\* noop.Install
noopInstall ==
    /\ created' = Append(created, "noop")
    /\ cfgs' = [cfgs EXCEPT !.MetricsProvider = NewMeterProvider("noop")]
    /\ ret' = [provider |-> NewMeterProvider("noop"), err |-> NoError]
    /\ UNCHANGED <<globalProvider, factoryCalls, dialed, exporters>>

\* faulty variant: the nil check on cfgs.OTLPExporterConn is missing
otlpDials_Always == TRUE

\* otlp.Install: if cfgs.OTLPExporterConn == nil, the factory is called
otlpDials == cfgs.OTLPExporterConn = NoConn

\* otlp.Install: cfgs.OTLPExporterConn after the connection step; it stays nil
\* when the factory was called and failed
otlpConn(dialOK) ==
    IF otlpDials
    THEN IF dialOK THEN NewExporterGRPCClient ELSE NoConn
    ELSE cfgs.OTLPExporterConn

\* faulty variant: the error of otlpmetricgrpc.New is dropped
otlpErr_IgnoresExporter(dialOK, expOK) ==
    IF otlpConn(dialOK) = NoConn THEN "NewExporterGRPCClient error" ELSE NoError

\* otlp.Install: the error it returns
otlpErr(dialOK, expOK) ==
    IF otlpConn(dialOK) = NoConn THEN "NewExporterGRPCClient error"
    ELSE IF ~expOK THEN "otlpmetricgrpc.New error"
    ELSE NoError

\* otlp.Install
otlpInstall(dialOK, expOK) ==
    /\ factoryCalls' = IF otlpDials THEN factoryCalls + 1 ELSE factoryCalls
    /\ dialed' = IF otlpDials /\ dialOK THEN dialed + 1 ELSE dialed
    /\ IF otlpErr(dialOK, expOK) # NoError
       THEN \* return nil, err
            /\ cfgs' = [cfgs EXCEPT !.OTLPExporterConn = otlpConn(dialOK)]
            /\ ret' = [provider |-> NilProvider, err |-> otlpErr(dialOK, expOK)]
            /\ UNCHANGED <<globalProvider, created, exporters>>
       ELSE /\ exporters' = exporters + 1
            /\ created' = Append(created, "otlp")
            /\ cfgs' = [OTLPExporterConn |-> otlpConn(dialOK),
                        MetricsProvider  |-> NewMeterProvider("otlp")]
            /\ globalProvider' = NewMeterProvider("otlp")
            /\ ret' = [provider |-> NewMeterProvider("otlp"), err |-> NoError]

\* metrics.Install(cfgs) with cfgs.OTLPConfigs.Enabled = enabled; dialOK and expOK
\* are what the connection factory and the exporter constructor answer if called
Install(enabled, dialOK, expOK) ==
    /\ UNCHANGED <<httpVars, collectVars>>
    /\ installs < MaxInstalls
    /\ installs' = installs + 1
    /\ lastCall' = [enabled |-> enabled, dialOK |-> dialOK, expOK |-> expOK]
    /\ IF enabled THEN otlpInstall(dialOK, expOK) ELSE noopInstall
    /\ UNCHANGED <<meter, recorded>>

\* NewHTTPMetricsMiddleware: meter := otel.Meter(...) reads the global provider
NewHTTPMetricsMiddleware ==
    /\ UNCHANGED <<httpVars, collectVars>>
    /\ meter' = globalProvider
    /\ UNCHANGED <<cfgs, globalProvider, created, factoryCalls, dialed, exporters,
                   installs, lastCall, ret, recorded>>

\* meter := provider.Meter(...) on the provider the last Install returned
ProviderMeter ==
    /\ UNCHANGED <<httpVars, collectVars>>
    /\ ret.provider # NilProvider
    /\ meter' = ret.provider
    /\ UNCHANGED <<cfgs, globalProvider, created, factoryCalls, dialed, exporters,
                   installs, lastCall, ret, recorded>>

\* a consumer records one measurement on an instrument of its meter
Measure ==
    /\ UNCHANGED <<httpVars, collectVars>>
    /\ meter # NilProvider
    /\ Len(recorded) < MaxMeasurements
    /\ recorded' = Append(recorded, meter)
    /\ UNCHANGED <<cfgs, globalProvider, created, factoryCalls, dialed, exporters,
                   installs, lastCall, ret, meter>>

\* the caller stores a connection it already holds in cfgs.OTLPExporterConn
ShareConn ==
    /\ UNCHANGED <<httpVars, collectVars>>
    /\ cfgs.OTLPExporterConn = NoConn
    /\ cfgs' = [cfgs EXCEPT !.OTLPExporterConn = InjectedConn]
    /\ UNCHANGED <<globalProvider, created, factoryCalls, dialed, exporters,
                   installs, lastCall, ret, meter, recorded>>

(* ------------------------- custom/system ------------------------------ *)

\* the gauges of memGauges in the order NewMemGauges creates them, each with
\* the runtime.MemStats field its callback observes
MemGauges ==
    << [name |-> "go_memstats_sys_bytes",               stat |-> "Sys"],
       [name |-> "go_memstats_alloc_bytes_total",       stat |-> "TotalAlloc"],
       [name |-> "go_memstats_heap_alloc_bytes",        stat |-> "HeapAlloc"],
       [name |-> "go_memstats_frees_total",             stat |-> "Frees"],
       [name |-> "go_memstats_gc_sys_bytes",            stat |-> "GCSys"],
       [name |-> "go_memstats_heap_idle_bytes",         stat |-> "HeapIdle"],
       [name |-> "go_memstats_heap_inuse_bytes",        stat |-> "HeapInuse"],
       [name |-> "go_memstats_heap_objects",            stat |-> "HeapObjects"],
       [name |-> "go_memstats_heap_released_bytes",     stat |-> "HeapReleased"],
       [name |-> "go_memstats_heap_sys_bytes",          stat |-> "HeapSys"],
       [name |-> "go_memstats_last_gc_time_seconds",    stat |-> "LastGC"],
       [name |-> "go_memstats_lookups_total",           stat |-> "Lookups"],
       [name |-> "go_memstats_mallocs_total",           stat |-> "Mallocs"],
       [name |-> "go_memstats_mcache_inuse_bytes",      stat |-> "MCacheInuse"],
       [name |-> "go_memstats_mcache_sys_bytes",        stat |-> "MCacheSys"],
       [name |-> "go_memstats_mspan_inuse_bytes",       stat |-> "MSpanInuse"],
       [name |-> "go_memstats_mspan_sys_bytes",         stat |-> "MSpanSys"],
       [name |-> "go_memstats_next_gc_bytes",           stat |-> "NextGC"],
       [name |-> "go_memstats_other_sys_bytes",         stat |-> "OtherSys"],
       [name |-> "go_memstats_stack_inuse_bytes",       stat |-> "StackSys"],
       [name |-> "go_memstats_gc_completed_cycle",      stat |-> "NumGC"],
       [name |-> "go_memstats_gc_pause_total",          stat |-> "PauseTotalNs"] >>

\* the gauges of sysGauges in the order NewSysGauge creates them, each with
\* the runtime function its callback observes
SysGauges ==
    << [name |-> "go_threads",    stat |-> "NumCPU"],
       [name |-> "go_cgo",        stat |-> "NumCgoCall"],
       [name |-> "go_goroutines", stat |-> "NumGoroutine"] >>

\* the gauges of a collector of the given kind
GaugesOf(kind) == IF kind = "mem" THEN MemGauges ELSE SysGauges

\* the names of a sequence of gauges, in its order
NameSeq(gauges) == [k \in 1..Len(gauges) |-> gauges[k].name]

\* the names in a sequence of names
Names(seq) == {seq[k] : k \in 1..Len(seq)}

\* the gauge whose creation the meter refuses: none, the first, the second
\* or the last one of the collector
FailPoints(gauges) == {0, 1, 2, Len(gauges)}

\* faulty variant: the error of a creation is not checked, so that the
\* constructor goes on and returns a collector that lacks a gauge
NewGauges_ErrorUnchecked(gauges, failAt) ==
    [made   |-> IF failAt \in 1..Len(gauges)
                THEN SubSeq(NameSeq(gauges), 1, failAt - 1)
                     \o SubSeq(NameSeq(gauges), failAt + 1, Len(gauges))
                ELSE NameSeq(gauges),
     failed |-> 0]

\* the body shared by NewMemGauges and NewSysGauge: the gauges are created in
\* order with meter.Int64ObservableGauge and the first err != nil returns
\* nil, err. made: the names created, in order; failed: the gauge whose creation
\* failed, 0 when the collector is returned
NewGauges(gauges, failAt) ==
    IF failAt \in 1..Len(gauges)
    THEN [made |-> SubSeq(NameSeq(gauges), 1, failAt - 1), failed |-> failAt]
    ELSE [made |-> NameSeq(gauges), failed |-> 0]

\* NewMemGauges(meter)
NewMemGauges(failAt) == NewGauges(MemGauges, failAt)

\* NewSysGauge(meter)
NewSysGauge(failAt) == NewGauges(SysGauges, failAt)

\* no collector (a nil BasicGauges)
NoCollector == 0

\* the collector a constructor returns next
NewCollector == Len(collectors) + 1

\* c.Collect(meter): _, _ = meter.RegisterCallback(cb), with no instrument
\* and with both results dropped; registered: whether the meter took the
\* callback. The callbacks of the meter after the call
Collect(cbs, c, registered) == IF registered THEN Append(cbs, c) ELSE cbs

\* what a call that constructs nothing leaves in lastCtor
NoCall ==
    [op |-> "none", memFailed |-> 0, sysFailed |-> 0, made |-> <<>>,
     mem |-> NoCollector, sys |-> NoCollector, err |-> FALSE]

\* the sampling state no constructor touches
samplingVars == <<runtime, ticks, cycle, stats, obs, seen, reads>>

\* a caller constructs a collector of the given kind on the meter
CallConstructor(kind, failAt) ==
    /\ UNCHANGED <<httpVars, installVars>>
    /\ Len(collectors) < MaxCollectors
    /\ LET res == IF kind = "mem" THEN NewMemGauges(failAt) ELSE NewSysGauge(failAt)
       IN  /\ registry' = registry \cup Names(res.made)
           /\ collectors' = IF res.failed = 0
                            THEN Append(collectors, [kind |-> kind, owner |-> "caller"])
                            ELSE collectors
           /\ lastCtor' = [op        |-> kind,
                           memFailed |-> IF kind = "mem" THEN res.failed ELSE 0,
                           sysFailed |-> IF kind = "sys" THEN res.failed ELSE 0,
                           made      |-> res.made,
                           mem       |-> IF kind = "mem" /\ res.failed = 0
                                         THEN NewCollector ELSE NoCollector,
                           sys       |-> IF kind = "sys" /\ res.failed = 0
                                         THEN NewCollector ELSE NoCollector,
                           err       |-> res.failed # 0]
    /\ UNCHANGED <<callbacks, samplingVars>>

\* a caller calls c.Collect(meter) on a collector it constructed; the call
\* returns nothing
CallCollect(c, registered) ==
    /\ UNCHANGED <<httpVars, installVars>>
    /\ c \in 1..Len(collectors)
    /\ collectors[c].owner = "caller"
    /\ Len(callbacks) < MaxCallbacks
    /\ callbacks' = Collect(callbacks, c, registered)
    /\ lastCtor' = [NoCall EXCEPT !.op = "Collect",
                                  !.mem = IF collectors[c].kind = "mem" THEN c ELSE NoCollector,
                                  !.sys = IF collectors[c].kind = "sys" THEN c ELSE NoCollector]
    /\ UNCHANGED <<registry, collectors, samplingVars>>

\* BasicMetricsCollector(logger)
BasicMetricsCollector(memFail, sysFail, memRegistered, sysRegistered) ==
    /\ UNCHANGED <<httpVars, installVars>>
    /\ Len(collectors) + 2 <= MaxCollectors
    /\ Len(callbacks) + 2 <= MaxCallbacks
    /\ LET m   == NewMemGauges(memFail)
           s   == NewSysGauge(sysFail)
           mem == NewCollector
           sys == NewCollector + 1
       IN  IF m.failed # 0
           THEN \* mem, err := NewMemGauges(meter); return err
                /\ registry' = registry \cup Names(m.made)
                /\ lastCtor' = [op |-> "basic",
                                memFailed |-> m.failed, sysFailed |-> 0,
                                made |-> m.made,
                                mem |-> NoCollector, sys |-> NoCollector,
                                err |-> TRUE]
                /\ UNCHANGED <<collectors, callbacks>>
           ELSE IF s.failed # 0
           THEN \* sys, err := NewSysGauge(meter); return err
                /\ registry' = registry \cup Names(m.made \o s.made)
                /\ collectors' = Append(collectors, [kind |-> "mem", owner |-> "basic"])
                /\ lastCtor' = [op |-> "basic",
                                memFailed |-> 0, sysFailed |-> s.failed,
                                made |-> m.made \o s.made,
                                mem |-> mem, sys |-> NoCollector,
                                err |-> TRUE]
                /\ UNCHANGED callbacks
           ELSE \* mem.Collect(meter); sys.Collect(meter); return nil
                /\ registry' = registry \cup Names(m.made \o s.made)
                /\ collectors' = collectors \o << [kind |-> "mem", owner |-> "basic"],
                                                  [kind |-> "sys", owner |-> "basic"] >>
                /\ callbacks' = Collect(Collect(callbacks, mem, memRegistered),
                                        sys, sysRegistered)
                /\ lastCtor' = [op |-> "basic",
                                memFailed |-> 0, sysFailed |-> 0,
                                made |-> m.made \o s.made,
                                mem |-> mem, sys |-> sys,
                                err |-> FALSE]
    /\ UNCHANGED samplingVars

\* the fields of runtime.MemStats the callback observes
StatFields == {MemGauges[k].stat : k \in 1..Len(MemGauges)}

\* var stats runtime.MemStats: the zero value
ZeroStats == [f \in StatFields |-> 0]

\* the runtime's memory statistics after v changes: every counter moves with
\* every change, and within one state HeapInuse (and every other field) is at
\* most Sys
MemStats(v) ==
    [f \in StatFields |->
        IF f = "Sys" THEN 100 * (v + 1)
        ELSE 100 * v + (CHOOSE k \in 1..Len(MemGauges) : MemGauges[k].stat = f)]

\* runtime.NumCPU(), runtime.NumCgoCall() and runtime.NumGoroutine() after v
\* changes: the processor count is fixed, the other two move with every change
RuntimeRead(stat, v) ==
    CASE stat = "NumCPU"       -> 4
      [] stat = "NumCgoCall"   -> v
      [] stat = "NumGoroutine" -> v + 1

\* the collector whose callback the reader is running
Running == collectors[callbacks[cycle.cb]]

\* the statements of a callback before its return nil: ReadMemStats and the
\* 22 ObserveInt64 of memGauges, the 3 ObserveInt64 of sysGauges
Statements(kind) == IF kind = "mem" THEN Len(MemGauges) + 1 ELSE Len(SysGauges)

\* faulty variant: the gauge is observed from the live runtime, not from stats
MemObserved_Live(k, st, v) == MemStats(v)[MemGauges[k].stat]

\* faulty variant: the gauge is observed from a stats that was never filled
MemObserved_Unfilled(k, st, v) == ZeroStats[MemGauges[k].stat]

\* the value the k-th ObserveInt64 of memGauges.Collect's callback is given
MemObserved(k, st, v) == st[MemGauges[k].stat]

\* the value the k-th ObserveInt64 of sysGauges.Collect's callback is given
SysObserved(k, v) == RuntimeRead(SysGauges[k].stat, v)

\* the reader enters callback i
Enter(i) ==
    /\ cycle' = [cb |-> i, step |-> 0]
    /\ stats' = ZeroStats
    /\ obs' = <<>>
    /\ seen' = {runtime}
    /\ reads' = <<>>

\* another goroutine allocates, frees, starts or ends: the runtime's counters change
RuntimeChange ==
    /\ UNCHANGED <<httpVars, installVars>>
    /\ runtime < MaxRuntimeChanges
    /\ runtime' = runtime + 1
    /\ seen' = IF cycle.cb # 0 THEN seen \cup {runtime + 1} ELSE seen
    /\ UNCHANGED <<registry, collectors, callbacks, lastCtor, ticks, cycle, stats, obs, reads>>

\* the provider's periodic reader starts a collection cycle
StartCycle ==
    /\ UNCHANGED <<httpVars, installVars>>
    /\ cycle.cb = 0
    /\ ticks < MaxTicks
    /\ callbacks # <<>>
    /\ ticks' = ticks + 1
    /\ Enter(1)
    /\ UNCHANGED <<registry, collectors, callbacks, lastCtor, runtime>>

\* memGauges.Collect's callback: runtime.ReadMemStats(&stats)
ReadMemStats ==
    /\ UNCHANGED <<httpVars, installVars>>
    /\ cycle.cb # 0
    /\ Running.kind = "mem"
    /\ cycle.step = 0
    /\ stats' = MemStats(runtime)
    /\ reads' = Append(reads, runtime)
    /\ cycle' = [cycle EXCEPT !.step = 1]
    /\ UNCHANGED <<registry, collectors, callbacks, lastCtor, runtime, ticks, obs, seen>>

\* memGauges.Collect's callback: the next observer.ObserveInt64(gauge, int64(stats.Field))
MemObserve ==
    /\ UNCHANGED <<httpVars, installVars>>
    /\ cycle.cb # 0
    /\ Running.kind = "mem"
    /\ cycle.step \in 1..Len(MemGauges)
    /\ obs' = Append(obs, [name  |-> MemGauges[cycle.step].name,
                           value |-> MemObserved(cycle.step, stats, runtime)])
    /\ cycle' = [cycle EXCEPT !.step = cycle.step + 1]
    /\ UNCHANGED <<registry, collectors, callbacks, lastCtor, runtime, ticks, stats, seen, reads>>

\* sysGauges.Collect's callback: the next observer.ObserveInt64(gauge, int64(runtime.F()))
SysObserve ==
    /\ UNCHANGED <<httpVars, installVars>>
    /\ cycle.cb # 0
    /\ Running.kind = "sys"
    /\ cycle.step \in 0..(Len(SysGauges) - 1)
    /\ obs' = Append(obs, [name  |-> SysGauges[cycle.step + 1].name,
                           value |-> SysObserved(cycle.step + 1, runtime)])
    /\ reads' = Append(reads, runtime)
    /\ cycle' = [cycle EXCEPT !.step = cycle.step + 1]
    /\ UNCHANGED <<registry, collectors, callbacks, lastCtor, runtime, ticks, stats, seen>>

\* the callback's return nil: the reader goes on to the next callback, or
\* the cycle ends
CallbackReturn ==
    /\ UNCHANGED <<httpVars, installVars>>
    /\ cycle.cb # 0
    /\ cycle.step = Statements(Running.kind)
    /\ IF cycle.cb < Len(callbacks)
       THEN Enter(cycle.cb + 1)
       ELSE /\ cycle' = [cb |-> 0, step |-> 0]
            /\ stats' = ZeroStats
            /\ obs' = <<>>
            /\ seen' = {}
            /\ reads' = <<>>
    /\ UNCHANGED <<registry, collectors, callbacks, lastCtor, runtime, ticks>>

(* -------------------------- specifications ---------------------------- *)

Init ==
    /\ pc = [r \in Requests |-> "idle"]
    /\ request = [r \in Requests |-> NoRequest]
    /\ rw = [r \in Requests |-> newResponseWriter]
    /\ start = [r \in Requests |-> 0]
    /\ handlerCalls = [r \in Requests |-> <<>>]
    /\ underlying = [r \in Requests |-> <<>>]
    /\ now = 0
    /\ invokedAt = [r \in Requests |-> 0]
    /\ returnedAt = [r \in Requests |-> 0]
    /\ requestDuration = [r \in Requests |-> <<>>]
    /\ requestCounter = [r \in Requests |-> <<>>]
    /\ cfgs = [OTLPExporterConn |-> NoConn, MetricsProvider |-> NilProvider]
    /\ globalProvider = DefaultProvider
    /\ created = <<>>
    /\ factoryCalls = 0
    /\ dialed = 0
    /\ exporters = 0
    /\ installs = 0
    /\ lastCall = [enabled |-> FALSE, dialOK |-> FALSE, expOK |-> FALSE]
    /\ ret = [provider |-> NilProvider, err |-> NoError]
    /\ meter = NilProvider
    /\ recorded = <<>>
    /\ registry = {}
    /\ collectors = <<>>
    /\ callbacks = <<>>
    /\ lastCtor = NoCall
    /\ runtime = 0
    /\ ticks = 0
    /\ cycle = [cb |-> 0, step |-> 0]
    /\ stats = ZeroStats
    /\ obs = <<>>
    /\ seen = {}
    /\ reads = <<>>

NextHTTP ==
    \/ \E r \in Requests, req \in RequestInputs : ServeHTTP(r, req)
    \/ \E r \in Requests : InvokeHandler(r)
    \/ \E r \in Requests, code \in Codes : HandlerWriteHeader(r, code)
    \/ \E r \in Requests : HandlerReturn(r)
    \/ \E r \in Requests : HandlerPanic(r)
    \/ \E r \in Requests : RecordDuration(r)
    \/ \E r \in Requests : AddCounter(r)

NextInstall ==
    \/ \E enabled \in BOOLEAN, dialOK \in BOOLEAN, expOK \in BOOLEAN :
           Install(enabled, dialOK, expOK)
    \/ ShareConn
    \/ NewHTTPMetricsMiddleware
    \/ ProviderMeter
    \/ Measure

\* requests served through one middleware instance
SpecHTTP == Init /\ [][NextHTTP]_vars

NextClock ==
    \/ Tick
    \/ \E r \in TimedRequests, req \in RequestInputs : ServeHTTP(r, req)
    \/ \E r \in TimedRequests : InvokeHandler(r)
    \/ \E r \in TimedRequests, code \in Codes : HandlerWriteHeader(r, code)
    \/ \E r \in TimedRequests : HandlerReturn(r)
    \/ \E r \in TimedRequests : HandlerPanic(r)
    \/ \E r \in TimedRequests : RecordDuration(r)
    \/ \E r \in TimedRequests : AddCounter(r)

SpecClock == Init /\ [][NextClock]_vars

\* Install calls on one configuration, and consumers recording measurements
SpecInstall == Init /\ [][NextInstall]_vars

NextCollect ==
    \/ \E kind \in {"mem", "sys"} : \E failAt \in FailPoints(GaugesOf(kind)) :
            CallConstructor(kind, failAt)
    \/ \E c \in 1..MaxCollectors : \E registered \in BOOLEAN : CallCollect(c, registered)
    \/ \E memFail \in FailPoints(MemGauges) : \E sysFail \in FailPoints(SysGauges) :
       \E memRegistered \in BOOLEAN : \E sysRegistered \in BOOLEAN :
            BasicMetricsCollector(memFail, sysFail, memRegistered, sysRegistered)

SpecCollect == Init /\ [][NextCollect]_vars

NextSampling ==
    \/ \E memFail \in FailPoints(MemGauges) : \E sysFail \in FailPoints(SysGauges) :
       \E memRegistered \in BOOLEAN : \E sysRegistered \in BOOLEAN :
            BasicMetricsCollector(memFail, sysFail, memRegistered, sysRegistered)
    \/ RuntimeChange
    \/ StartCycle
    \/ ReadMemStats
    \/ MemObserve
    \/ SysObserve
    \/ CallbackReturn

SpecSampling == Init /\ [][NextSampling]_vars

(* ------------------------------ helpers ------------------------------- *)

RECURSIVE SumValues(_)
\* the sum of the values of a sequence of measurements
SumValues(ms) == IF ms = <<>> THEN 0 ELSE ms[1].value + SumValues(Tail(ms))

RECURSIVE SumOver(_, _)
\* the sum of f[r] over the requests of S
SumOver(f, S) ==
    IF S = {} THEN 0
    ELSE LET r == CHOOSE x \in S : TRUE IN SumValues(f[r]) + SumOver(f, S \ {r})

\* the total the request counter has accumulated
CounterTotal == SumOver(requestCounter, Requests)

\* the requests that have entered the middleware
Served == {r \in Requests : pc[r] # "idle"}

\* the status codes request r's own handler wrote (200 when it wrote none)
OwnStatuses(r) ==
    IF handlerCalls[r] = <<>> THEN {StatusOK}
    ELSE {handlerCalls[r][i] : i \in 1..Len(handlerCalls[r])}

\* the last step was an Install call
InstallStep == installs' = installs + 1

\* the last step was an Install call with exporting enabled in which the
\* connection factory or the exporter construction failed
FailingInstallStep ==
    /\ InstallStep
    /\ lastCall'.enabled
    /\ \/ cfgs.OTLPExporterConn = NoConn /\ ~lastCall'.dialOK
       \/ ~lastCall'.expOK

\* the provider created last
LatestProvider ==
    IF created = <<>> THEN NilProvider
    ELSE [kind |-> created[Len(created)], id |-> Len(created)]

(* ------------------------------- claims ------------------------------- *)

\* C1: a request whose inner handler returned normally has, once fn is done,
\* exactly one Add(1) on the counter and exactly one Record on the histogram,
\* both with the same attribute set; no request ever has more than one of either.
C1_OneAddOneRecordSameAttributes ==
    \A r \in Requests :
        /\ Len(requestCounter[r]) <= 1
        /\ Len(requestDuration[r]) <= 1
        /\ pc[r] = "done" =>
              /\ Len(requestCounter[r]) = 1
              /\ Len(requestDuration[r]) = 1
              /\ requestCounter[r][1].value = 1
              /\ requestCounter[r][1].attrs = requestDuration[r][1].attrs
              /\ requestCounter[r][1].attrs.statusCode = rw[r].statusCode

\* C1 witness: a request that wrote a status is done
C1_Witness ==
    \E r \in Requests : pc[r] = "done" /\ handlerCalls[r] # <<>>

\* C2: once every request that entered the middleware has returned, the counter
\* total is the number of requests, and each increment carries the method and
\* URI of its own request and a status its own handler wrote (200 if none).
C2_TotalIsNAndAttributesAreOwn ==
    (\A r \in Served : pc[r] = "done") =>
        /\ CounterTotal = Cardinality(Served)
        /\ \A r \in Served : \A i \in 1..Len(requestCounter[r]) :
              /\ requestCounter[r][i].attrs.method = request[r].Method
              /\ requestCounter[r][i].attrs.uri = request[r].RequestURI
              /\ requestCounter[r][i].attrs.statusCode \in OwnStatuses(r)

\* C2 witness: all requests have returned, two of them with different statuses
C2_Witness ==
    /\ \A r \in Requests : pc[r] = "done"
    /\ \E r, q \in Requests :
          /\ request[r] # request[q]
          /\ requestCounter[r][1].attrs.statusCode = 404
          /\ requestCounter[q][1].attrs.statusCode = StatusOK

\* C3 (as claimed): the status emitted for a request is the code of the first
\* WriteHeader call of its handler.
C3_FirstStatusIsRecorded ==
    \A r \in Requests :
        (pc[r] = "done" /\ handlerCalls[r] # <<>>) =>
            /\ requestCounter[r][1].attrs.statusCode = handlerCalls[r][1]
            /\ requestDuration[r][1].attrs.statusCode = handlerCalls[r][1]

\* C4 (as claimed): a request whose inner handler panicked still has its
\* counter increment and its duration observation.
C4_RecordedOnPanic ==
    \A r \in Requests :
        pc[r] = "panicked" =>
            Len(requestCounter[r]) = 1 /\ Len(requestDuration[r]) = 1

\* C5: a handler that called WriteHeader(c) exactly once yields status c, a
\* handler that never called it yields 200, on both instruments.
C5_SingleWriteOrDefault ==
    \A r \in Requests :
        pc[r] = "done" =>
            /\ Len(handlerCalls[r]) = 1 =>
                  /\ requestCounter[r][1].attrs.statusCode = handlerCalls[r][1]
                  /\ requestDuration[r][1].attrs.statusCode = handlerCalls[r][1]
            /\ Len(handlerCalls[r]) = 0 =>
                  /\ requestCounter[r][1].attrs.statusCode = StatusOK
                  /\ requestDuration[r][1].attrs.statusCode = StatusOK

\* C5 witness: one request done after WriteHeader(404) alone, one done after none
C5_Witness ==
    \E r, q \in Requests :
        /\ pc[r] = "done" /\ handlerCalls[r] = <<404>>
        /\ pc[q] = "done" /\ handlerCalls[q] = <<>>

\* C6: an Install call with exporting disabled returns a non-nil provider and a
\* nil error and neither calls the connection factory nor creates an exporter;
\* recording a measurement does neither as well.
C6_DisabledInstallNeverDials ==
    [][ /\ (InstallStep /\ ~lastCall'.enabled) =>
              /\ ret'.provider # NilProvider
              /\ ret'.provider.kind = "noop"
              /\ ret'.err = NoError
              /\ factoryCalls' = factoryCalls
              /\ dialed' = dialed
              /\ exporters' = exporters
        /\ recorded' # recorded =>
              /\ factoryCalls' = factoryCalls
              /\ dialed' = dialed
              /\ exporters' = exporters ]_vars

\* C6 witness: a disabled Install after an enabled one that dialed, and two
\* measurements recorded on the provider the disabled Install returned
C6_Witness ==
    /\ ~lastCall.enabled
    /\ installs >= 2
    /\ factoryCalls = 1
    /\ ret.provider.kind = "noop"
    /\ Len(recorded) >= 2
    /\ \A i \in 1..Len(recorded) : recorded[i] = ret.provider

\* C7 (as claimed): after a successful Install, in either mode, both
\* cfgs.MetricsProvider and the global meter provider are the returned provider.
C7_ReturnedProviderIsPublished ==
    (installs > 0 /\ ret.err = NoError) =>
        /\ cfgs.MetricsProvider = ret.provider
        /\ globalProvider = ret.provider

\* C8: an Install call with exporting enabled in which the connection factory
\* or the exporter construction fails returns a nil provider and a non-nil
\* error, and writes neither cfgs.MetricsProvider nor the global provider.
C8_FailingInstallPublishesNothing ==
    [][ FailingInstallStep =>
            /\ ret'.provider = NilProvider
            /\ ret'.err # NoError
            /\ cfgs'.MetricsProvider = cfgs.MetricsProvider
            /\ globalProvider' = globalProvider
            /\ created' = created ]_vars

\* C8 witness: the exporter construction failed in a call that followed a
\* successful exporting Install
C8_Witness ==
    /\ lastCall.enabled
    /\ ret.err = "otlpmetricgrpc.New error"
    /\ cfgs.MetricsProvider.kind = "otlp"
    /\ globalProvider = cfgs.MetricsProvider

\* C9: the factory is called only while no connection is cached; a connection
\* it returns is cached, also when the exporter construction then fails; a
\* cached connection is kept and the factory is not called again; at most one
\* connection is ever created.
C9_ConnectionLazyAndReused ==
    [][ /\ factoryCalls' # factoryCalls => cfgs.OTLPExporterConn = NoConn
        /\ dialed' # dialed =>
              cfgs'.OTLPExporterConn = [kind |-> "dialed", id |-> dialed']
        /\ cfgs.OTLPExporterConn # NoConn =>
              /\ factoryCalls' = factoryCalls
              /\ cfgs'.OTLPExporterConn = cfgs.OTLPExporterConn
        /\ dialed' <= 1 ]_vars

\* C9 witness: the first call dialed and its exporter construction failed, the
\* second call built its exporter on the cached connection without dialing
C9_Witness ==
    /\ installs = 2
    /\ created = <<"otlp">>
    /\ lastCall.enabled
    /\ ret.err = NoError
    /\ factoryCalls = 1
    /\ dialed = 1
    /\ exporters = 1
    /\ cfgs.OTLPExporterConn = [kind |-> "dialed", id |-> 1]

\* C10 (as claimed): at most one provider is ever created and published, and
\* the published handle keeps the first provider written to it.
C10_OneProviderWrittenOnce ==
    /\ Len(created) <= 1
    /\ cfgs.MetricsProvider # NilProvider => cfgs.MetricsProvider.id = 1

\* C10 (amended): every successful Install creates exactly one new provider and
\* writes it to cfgs.MetricsProvider, replacing the provider of an earlier
\* Install; no other step creates a provider or writes the handle.
C10_OneProviderPerSuccessfulInstall ==
    [][ /\ Len(created') =
              Len(created) + (IF InstallStep /\ ret'.err = NoError THEN 1 ELSE 0)
        /\ cfgs'.MetricsProvider = LatestProvider'
        /\ (InstallStep /\ ret'.err = NoError) => ret'.provider = LatestProvider'
        /\ installs' <= 1 => Len(created') <= 1 ]_vars

\* C10 witness: a second successful Install has replaced the provider of the first
C10_Witness ==
    /\ Len(created) = 2
    /\ cfgs.MetricsProvider.id = 2
    /\ ret.err = NoError

(* ----------------------------- C11 ------------------------------------ *)

\* the gauges a collector of the given kind holds are all in the registry
FullyCreated(kind, reg) == Names(NameSeq(GaugesOf(kind))) \subseteq reg

\* what a call of NewMemGauges or NewSysGauge that has just returned must
\* have done
ConstructorStep ==
    LET call   == lastCtor'
        gauges == GaugesOf(call.op)
        k      == IF call.op = "mem" THEN call.memFailed ELSE call.sysFailed
        c      == IF call.op = "mem" THEN call.mem ELSE call.sys
    IN  /\ registry' = registry \cup Names(call.made)
        /\ IF k # 0
           THEN /\ call.made = SubSeq(NameSeq(gauges), 1, k - 1)
                /\ c = NoCollector
                /\ call.err
                /\ collectors' = collectors
           ELSE /\ call.made = NameSeq(gauges)
                /\ c = Len(collectors) + 1
                /\ ~call.err
                /\ collectors' = Append(collectors, [kind |-> call.op, owner |-> "caller"])
        /\ \A i \in 1..Len(collectors') : FullyCreated(collectors'[i].kind, registry')

\* C11: NewMemGauges and NewSysGauge create their gauges in order; when the
\* creation of the k-th gauge fails, exactly the k-1 gauges before it were
\* created, none after it, and the call returns no collector and the error;
\* a collector is returned only when all of its gauges were created, and
\* every collector that exists has all of its gauges.
C11_ConstructionAllOrNothing ==
    [][lastCtor'.op \in {"mem", "sys"} => ConstructorStep]_vars

\* NewMemGauges has failed at its second gauge, after creating the first
C11_Witness ==
    /\ lastCtor.op = "mem"
    /\ lastCtor.memFailed = 2
    /\ lastCtor.made = <<"go_memstats_sys_bytes">>
    /\ lastCtor.mem = NoCollector
    /\ lastCtor.err
    /\ "go_memstats_sys_bytes" \in registry
    /\ "go_memstats_alloc_bytes_total" \notin registry

(* ----------------------------- C12 ------------------------------------ *)

\* the callbacks registered for collector c
CallbacksOf(c) == {i \in 1..Len(callbacks) : callbacks[i] = c}

\* C12: when BasicMetricsCollector has constructed the memory collector and
\* the construction of the system collector has failed, the memory collector
\* has its sampling callback registered.
C12_MemoryCollectorSurvivesSysFailure ==
    (lastCtor.op = "basic" /\ lastCtor.sysFailed # 0 /\ lastCtor.mem # NoCollector)
        => CallbacksOf(lastCtor.mem) # {}

(* ----------------------------- C13 ------------------------------------ *)

\* C13: after a BasicMetricsCollector that returned nil there is exactly one
\* registered callback for the memory collector and exactly one for the
\* system collector.
C13_OneCallbackPerCollector ==
    (lastCtor.op = "basic" /\ ~lastCtor.err)
        => /\ Cardinality(CallbacksOf(lastCtor.mem)) = 1
           /\ Cardinality(CallbacksOf(lastCtor.sys)) = 1

(* ----------------------------- C14 ------------------------------------ *)

\* C14: registering a collector a second time adds no second callback: no
\* collector ever has more than one registered callback.
C14_NoSecondCallback ==
    \A c \in 1..Len(collectors) : Cardinality(CallbacksOf(c)) <= 1

(* ----------------------------- C15 ------------------------------------ *)

\* the reader is inside the callback of a memory collector
InMemCallback == cycle.cb # 0 /\ Running.kind = "mem"

\* the observation the k-th gauge of memGauges gets from the snapshot taken
\* when the runtime had changed v times
FromSnapshot(k, v) ==
    [name |-> MemGauges[k].name, value |-> MemStats(v)[MemGauges[k].stat]]

\* C15: an invocation of the memory collector's callback starts with nothing
\* kept from an earlier invocation, reads the runtime's memory statistics
\* once, and then emits the 22 gauges once each, in order, every value from
\* that one read, whatever the runtime does meanwhile.
C15_OneReadFeedsAllGauges ==
    InMemCallback =>
        /\ cycle.step = 0 => (stats = ZeroStats /\ reads = <<>> /\ obs = <<>>)
        /\ cycle.step >= 1 =>
              /\ Len(reads) = 1
              /\ Len(obs) = cycle.step - 1
              /\ \A k \in 1..Len(obs) : obs[k] = FromSnapshot(k, reads[1])
        /\ cycle.step = Statements("mem") => Len(obs) = Len(MemGauges)

\* the second invocation of a memory callback has emitted its 22 gauges from
\* a snapshot that the runtime has left behind during the invocation
C15_Witness ==
    /\ InMemCallback
    /\ ticks = 2
    /\ cycle.step = Statements("mem")
    /\ Len(obs) = 22
    /\ reads = <<1>>
    /\ runtime = 2
    /\ seen = {1, 2}

(* ----------------------------- C16 ------------------------------------ *)

\* the reader is inside the callback of a system collector
InSysCallback == cycle.cb # 0 /\ Running.kind = "sys"

\* C16: the three values one invocation of the system collector's callback
\* has emitted are those of one state the runtime was in during the
\* invocation.
C16_SysGaugesFromOneSnapshot ==
    (InSysCallback /\ cycle.step = Statements("sys")) =>
        \E v \in seen : \A k \in 1..Len(SysGauges) : obs[k].value = SysObserved(k, v)

(* ----------------------------- C17 ------------------------------------ *)

\* the values the running callback has emitted for the gauge of that name
Emitted(name) == {obs[i].value : i \in {j \in 1..Len(obs) : obs[j].name = name}}

\* C17: within one invocation of the memory collector's callback, the value
\* emitted for go_memstats_heap_inuse_bytes is at most the value emitted for
\* go_memstats_sys_bytes, while every state of the runtime has HeapInuse at
\* most Sys and the runtime changes during and between invocations.
C17_HeapInuseAtMostSys ==
    /\ \A v \in 0..MaxRuntimeChanges : MemStats(v).HeapInuse <= MemStats(v).Sys
    /\ InMemCallback =>
          \A inuse \in Emitted("go_memstats_heap_inuse_bytes") :
          \A sys \in Emitted("go_memstats_sys_bytes") : inuse <= sys

\* a memory callback has emitted both gauges, and the runtime has since
\* moved to a state whose in-use heap exceeds the system bytes emitted
C17_Witness ==
    /\ InMemCallback
    /\ Emitted("go_memstats_heap_inuse_bytes") # {}
    /\ Emitted("go_memstats_sys_bytes") # {}
    /\ \A sys \in Emitted("go_memstats_sys_bytes") : MemStats(runtime).HeapInuse > sys

(* ----------------------------- C18 ------------------------------------ *)

\* the attribute sets of the measurements request r has emitted
EmittedAttributes(r) ==
    {requestCounter[r][i].attrs : i \in 1..Len(requestCounter[r])}
        \cup {requestDuration[r][i].attrs : i \in 1..Len(requestDuration[r])}

\* C18: every measurement on the request counter and on the duration
\* histogram carries exactly the attribute keys method, uri and status_code.
C18_AttributeKeys ==
    \A r \in Requests : \A attrs \in EmittedAttributes(r) :
        DOMAIN attrs = {"method", "uri", "status_code"}

(* ----------------------------- C19 ------------------------------------ *)

\* the time the inner handler of request r took
HandlerTime(r) == returnedAt[r] - invokedAt[r]

C20_DecoratorTransparent ==
    \A r \in Requests : underlying[r] = handlerCalls[r]

\* a request is through the middleware whose handler wrote two statuses, and
\* another whose handler wrote none
C20_Witness ==
    \E r, q \in Requests :
        /\ pc[r] = "done" /\ handlerCalls[r] = <<404, 500>> /\ underlying[r] = <<404, 500>>
        /\ pc[q] = "done" /\ handlerCalls[q] = <<>> /\ underlying[q] = <<>>

====
